---- MODULE Spec2Model ----
(***************************************************************************)
(* TaskSchedulerService (the task scheduler of the generated MCP server):  *)
(* the registry this.tasks, the counters this.stats, the cron trigger of   *)
(* every task object, the invocations suspended at the await of runTask,   *)
(* and the setImmediate queue of runOnStart.                               *)
(*                                                                         *)
(* A task object is a heap cell: the registry maps a task id to a cell, an *)
(* invocation in flight keeps the cell it read before the await, and a     *)
(* deleted cell lives on for the invocations that still hold it.           *)
(*                                                                         *)
(* Every operation is a function of the state and its inputs (the          *)
(* arguments, what the handler does, what the listeners of the emitted     *)
(* events do) that yields the next state, the events emitted and the       *)
(* value returned; the actions apply these functions.                      *)
(***************************************************************************)
EXTENDS Integers, Sequences, FiniteSets, TLC

\* ---------------------------------------------------------------- bounds
MaxScheduled == 2  \* successful registrations counted by stats.scheduled
MaxRuns == 2       \* invocations ever started
MaxCancels == 1    \* successful stops counted by stats.cancelled
MaxRepeats == 1    \* further cancelTask calls on a task already cancelled
MaxClock == 1      \* clock readings after the first, in the specification with a clock
MaxCalls == 3      \* storeData and retrieveData calls made on the memory service

DefaultMaxTasks == 100

\* task ids callers use
TaskIds == {"t1", "t2"}

\* Map.get of a key that is absent
NoObj == 0

\* no view kept by the caller
NoView == [obj |-> NoObj, view |-> "none"]

\* ------------------------------------------------- cron expressions (node-cron)
\* Expressions callers pass, as the sequence of their fields.
EveryMinute == <<"*", "*", "*", "*", "*">>
TooShort == <<"*", "*", "*">>
BadField == <<"*", "x", "*", "*", "*">>
Empty == <<>>

Expressions == {EveryMinute, TooShort, BadField, Empty}

FieldTokens == {"*", "*/2"}

\* cron.validate: five or six fields, every one well-formed
Validate(e) ==
  /\ Len(e) \in {5, 6}
  /\ \A i \in 1..Len(e) : e[i] \in FieldTokens

\* does clock reading t (in minutes) match the expression's minute field
Matches(e, t) ==
  LET m == e[Len(e) - 4]
  IN  IF m = "*/2" THEN t % 2 = 0 ELSE TRUE

\* the library's next date: the first matching reading after `now`
NextDate(e, now) ==
  IF Matches(e, now + 1) THEN now + 1 ELSE now + 2

\* ---------------------------------------------------------------- state
VARIABLES
  maxTasks,    \* this.options.maxTasks
  hasNextDate, \* whether the installed cron task object offers nextDate()
  tasks,       \* this.tasks: task id -> task object (NoObj when absent)
  heap,        \* the task objects created so far
  stats,       \* this.stats
  awaiting,    \* per task object: invocations suspended at the await
  immediates,  \* setImmediate callbacks queued by runOnStart (task ids)
  clock,       \* new Date()
  held         \* the view object a caller keeps from getTaskInfo (NoView when none)

\* MemoryService (templates/filesystem-service.template)
VARIABLES
  strictKeys,  \* whether the installed node-cache throws on a key that is no string or number
  cache,       \* this.cache: key -> the entry stored, or Absent
  memStats,    \* this.stats of the memory service
  calls        \* history: the storeData / retrieveData calls made, by their result

memVars == <<strictKeys, cache, memStats, calls>>

schedulerVars == <<maxTasks, hasNextDate, tasks, heap, stats, awaiting, immediates, clock, held>>

vars == <<schedulerVars, memVars>>

\* what a listener of an emitted event does
ListenerOutcomes == {"returns", "throws", "throwsNull"}

\* what calling the handler does: a value or promise to await, or a throw
HandlerCalls == {"awaited", "throws", "throwsNull"}

\* how an awaited handler settles
Settlements == {"resolves", "rejects", "rejectsNull"}

\* the task argument of scheduleTask: a function or an object with run, or null
TaskArgs == {"callable", "null"}

Has(id) == tasks[id] # NoObj

Size == Cardinality({id \in TaskIds : Has(id)})

Objs == 1..Len(heap)

\* invocations started so far, as the counters record them
Started == stats.completed + stats.failed + stats.running

Event(type, id) == [type |-> type, taskId |-> id]

\* return values: kind is "ok" (success: true), "fail" (success: false),
\* "raised" (the call threw, or the promise rejected) or "pending" (the
\* promise of a runTask whose handler has not settled)
Ok == [kind |-> "ok", error |-> "none"]

Fail(msg) == [kind |-> "fail", error |-> msg]

Pending == [kind |-> "pending", error |-> "none"]

\* error.message of a null error raises out of the catch block
Raised == [kind |-> "raised", error |-> "TypeError"]

\* the outer catch of an operation, entered with what a listener threw
OuterCatch(l) == IF l = "throwsNull" THEN Raised ELSE Fail("listener error")

\* the state an operation starts from, nothing emitted yet
Cur ==
  [ tasks |-> tasks, heap |-> heap, stats |-> stats, awaiting |-> awaiting,
    immediates |-> immediates, emitted |-> <<>>, ret |-> Ok, value |-> "none" ]

\* an early return: nothing but the return value
Refused(msg) == [Cur EXCEPT !.ret = Fail(msg)]

\* calculateNextRun: the temporary task's next date, or the current date when
\* nextDate() is missing and the call lands in the catch
calculateNextRun(e, now) == IF hasNextDate THEN NextDate(e, now) ELSE now

\* lines 213-216: the temporary task of calculateNextRun, created with
\* scheduled: false, so not started
tempTask == [active |-> FALSE]

\* the temporary task when calculateNextRun returns: stopped at line 222, or
\* left as created when nextDate() is missing and line 222 is skipped
tempTaskLeft == IF hasNextDate THEN [tempTask EXCEPT !.active = FALSE] ELSE tempTask

\* the task object with scheduled: false for the scheduled: true of line 90
NewTaskNotStarted(id, e, runOnStart) ==
  [ id |-> id,
    schedule |-> e,
    options |-> [timezone |-> "UTC", runOnStart |-> runOnStart],
    status |-> "scheduled",
    lastRun |-> -1,
    nextRun |-> -1,
    stats |-> [runs |-> 0, errors |-> 0],
    lastResult |-> "none",
    lastError |-> "none",
    cronActive |-> FALSE ]

\* lines 66-83 and 94: the task object, its trigger started by cron.schedule
NewTask(id, e, runOnStart) ==
  [ id |-> id,
    schedule |-> e,
    options |-> [timezone |-> "UTC", runOnStart |-> runOnStart],
    status |-> "scheduled",
    lastRun |-> -1,
    nextRun |-> -1,
    stats |-> [runs |-> 0, errors |-> 0],
    lastResult |-> "none",
    lastError |-> "none",
    cronActive |-> TRUE ]

\* A task object nothing refers to any more (not in the registry, its trigger
\* stopped, no invocation holding it) is garbage: its cell is cleared.
Collected ==
  [ id |-> "none", schedule |-> <<>>,
    options |-> [timezone |-> "UTC", runOnStart |-> FALSE],
    status |-> "collected", lastRun |-> -1, nextRun |-> -1,
    stats |-> [runs |-> 0, errors |-> 0],
    lastResult |-> "none", lastError |-> "none", cronActive |-> FALSE ]

\* the cell a new task object takes: a cleared one, or a new one
FreeCell ==
  IF \E o \in Objs : heap[o] = Collected
    THEN CHOOSE o \in Objs : heap[o] = Collected /\ \A p \in Objs : heap[p] = Collected => o <= p
    ELSE Len(heap) + 1

\* ------------------------------------------------------------ scheduleTask
\* lines 65-116: the task object in its cell, the registry entry, the
\* counter, the next run, the event, the runOnStart callback
register(id, e, task, runOnStart, l) ==
  IF task = "null" THEN Refused("TypeError")
  ELSE
    LET nr == calculateNextRun(e, clock)
        o == FreeCell
        t == [NewTask(id, e, runOnStart) EXCEPT !.nextRun = nr]
    IN  [ tasks |-> [tasks EXCEPT ![id] = o],
          heap |-> IF o \in Objs THEN [heap EXCEPT ![o] = t] ELSE Append(heap, t),
          stats |-> [stats EXCEPT !.scheduled = @ + 1],
          awaiting |-> IF o \in Objs THEN awaiting ELSE Append(awaiting, 0),
          immediates |-> IF l = "returns" /\ runOnStart
                           THEN Append(immediates, id) ELSE immediates,
          emitted |-> <<Event("task:scheduled", id)>>,
          ret |-> IF l = "returns" THEN Ok ELSE OuterCatch(l),
          value |-> IF l = "returns" THEN nr ELSE "none" ]

\* scheduleTask without the check of lines 42-47
scheduleTaskNoDuplicateCheck(id, e, task, runOnStart, l) ==
  IF Size >= maxTasks THEN Refused("Maximum task limit reached")
  ELSE IF ~Validate(e) THEN Refused("Invalid cron schedule expression")
  ELSE register(id, e, task, runOnStart, l)

\* scheduleTask with > for the >= of line 50
scheduleTaskLimitOffByOne(id, e, task, runOnStart, l) ==
  IF Has(id) THEN Refused("Task ID already exists")
  ELSE IF Size > maxTasks THEN Refused("Maximum task limit reached")
  ELSE IF ~Validate(e) THEN Refused("Invalid cron schedule expression")
  ELSE register(id, e, task, runOnStart, l)

\* scheduleTask without the check of lines 58-63
scheduleTaskNoValidation(id, e, task, runOnStart, l) ==
  IF Has(id) THEN Refused("Task ID already exists")
  ELSE IF Size >= maxTasks THEN Refused("Maximum task limit reached")
  ELSE register(id, e, task, runOnStart, l)

scheduleTask(id, e, task, runOnStart, l) ==
  IF Has(id) THEN Refused("Task ID already exists")
  ELSE IF Size >= maxTasks THEN Refused("Maximum task limit reached")
  ELSE IF ~Validate(e) THEN Refused("Invalid cron schedule expression")
  ELSE register(id, e, task, runOnStart, l)

\* ----------------------------------------------------------------- runTask
\* lines 174-195, the catch of the inner try, entered in state c on task
\* object o with err ("null" for a thrown null or undefined, else the
\* error's message)
\* the catch of lines 174-195 stopping the trigger of the task that failed
runTaskCatchStopsTrigger(c, o, err, l) ==
  LET id == c.heap[o].id
      h1 == [c.heap EXCEPT ![o].stats.errors = @ + 1, ![o].status = "failed",
                           ![o].cronActive = FALSE]
  IN  IF err = "null"
        THEN [c EXCEPT !.heap = h1, !.ret = Fail("TypeError"), !.value = "none"]
        ELSE [c EXCEPT
               !.heap = [h1 EXCEPT ![o].lastError = err,
                           ![o].nextRun = calculateNextRun(c.heap[o].schedule, clock)],
               !.stats = [c.stats EXCEPT !.running = @ - 1, !.failed = @ + 1],
               !.emitted = Append(c.emitted, Event("task:failed", id)),
               !.ret = IF l = "returns" THEN Fail(err) ELSE OuterCatch(l),
               !.value = "none" ]

runTaskCatch(c, o, err, l) ==
  LET id == c.heap[o].id
      h1 == [c.heap EXCEPT ![o].stats.errors = @ + 1, ![o].status = "failed"]
  IN  IF err = "null"
        THEN \* error.message raises a TypeError, which the outer catch returns
             [c EXCEPT !.heap = h1, !.ret = Fail("TypeError"), !.value = "none"]
        ELSE [c EXCEPT
               !.heap = [h1 EXCEPT ![o].lastError = err,
                           ![o].nextRun = calculateNextRun(c.heap[o].schedule, clock)],
               !.stats = [c.stats EXCEPT !.running = @ - 1, !.failed = @ + 1],
               !.emitted = Append(c.emitted, Event("task:failed", id)),
               !.ret = IF l = "returns" THEN Fail(err) ELSE OuterCatch(l),
               !.value = "none" ]

\* lines 154-173, after the await of a handler that resolved
runTaskResolved(c, o, l1, l2) ==
  LET id == c.heap[o].id
      c1 == [c EXCEPT
              !.heap = [c.heap EXCEPT ![o].stats.runs = @ + 1,
                          ![o].status = "completed",
                          ![o].lastResult = "result",
                          ![o].nextRun = calculateNextRun(c.heap[o].schedule, clock)],
              !.stats = [c.stats EXCEPT !.running = @ - 1, !.completed = @ + 1],
              !.emitted = Append(c.emitted, Event("task:completed", id)),
              !.ret = Ok,
              !.value = "result" ]
  IN  IF l1 = "returns" THEN c1
      ELSE runTaskCatch(c1, o, IF l1 = "throwsNull" THEN "null" ELSE "listener error", l2)

\* lines 130-152 up to the await and, when the handler throws at the call,
\* lines 174-201
\* runTask refusing a task that has an invocation in flight
runTaskNoReentry(id, l1, hc, l2) ==
  IF ~Has(id) THEN Refused("Task not found")
  ELSE IF awaiting[tasks[id]] > 0 THEN Refused("Task already running")
  ELSE
    LET o == tasks[id]
        c1 == [Cur EXCEPT
                !.heap = [heap EXCEPT ![o].status = "running", ![o].lastRun = clock],
                !.stats = [stats EXCEPT !.running = @ + 1],
                !.emitted = <<Event("task:running", id)>>]
    IN  IF l1 # "returns" THEN [c1 EXCEPT !.ret = OuterCatch(l1)]
        ELSE IF hc = "awaited"
          THEN [c1 EXCEPT !.awaiting = [awaiting EXCEPT ![o] = @ + 1], !.ret = Pending]
        ELSE runTaskCatch(c1, o, IF hc = "throwsNull" THEN "null" ELSE "handler error", l2)

\* runTask refusing to start while any invocation is in flight
runTaskOneAtATime(id, l1, hc, l2) ==
  IF ~Has(id) THEN Refused("Task not found")
  ELSE IF \E p \in Objs : awaiting[p] > 0 THEN Refused("busy")
  ELSE
    LET o == tasks[id]
        c1 == [Cur EXCEPT
                !.heap = [heap EXCEPT ![o].status = "running", ![o].lastRun = clock],
                !.stats = [stats EXCEPT !.running = @ + 1],
                !.emitted = <<Event("task:running", id)>>]
    IN  IF l1 # "returns" THEN [c1 EXCEPT !.ret = OuterCatch(l1)]
        ELSE IF hc = "awaited"
          THEN [c1 EXCEPT !.awaiting = [awaiting EXCEPT ![o] = @ + 1], !.ret = Pending]
        ELSE runTaskCatch(c1, o, IF hc = "throwsNull" THEN "null" ELSE "handler error", l2)

\* runTask counting the invocation before it looks the task up
runTaskCountsBeforeLookup(id, l1, hc, l2) ==
  IF ~Has(id)
    THEN [Cur EXCEPT !.stats = [stats EXCEPT !.running = @ + 1], !.ret = Fail("Task not found")]
  ELSE
    LET o == tasks[id]
        c1 == [Cur EXCEPT
                !.heap = [heap EXCEPT ![o].status = "running", ![o].lastRun = clock],
                !.stats = [stats EXCEPT !.running = @ + 1],
                !.emitted = <<Event("task:running", id)>>]
    IN  IF l1 # "returns" THEN [c1 EXCEPT !.ret = OuterCatch(l1)]
        ELSE IF hc = "awaited"
          THEN [c1 EXCEPT !.awaiting = [awaiting EXCEPT ![o] = @ + 1], !.ret = Pending]
        ELSE runTaskCatch(c1, o, IF hc = "throwsNull" THEN "null" ELSE "handler error", l2)

runTask(id, l1, hc, l2) ==
  IF ~Has(id) THEN Refused("Task not found")
  ELSE
    LET o == tasks[id]
        c1 == [Cur EXCEPT
                !.heap = [heap EXCEPT ![o].status = "running", ![o].lastRun = clock],
                !.stats = [stats EXCEPT !.running = @ + 1],
                !.emitted = <<Event("task:running", id)>>]
    IN  IF l1 # "returns" THEN [c1 EXCEPT !.ret = OuterCatch(l1)]
        ELSE IF hc = "awaited"
          THEN [c1 EXCEPT !.awaiting = [awaiting EXCEPT ![o] = @ + 1], !.ret = Pending]
        ELSE runTaskCatch(c1, o, IF hc = "throwsNull" THEN "null" ELSE "handler error", l2)

\* line 109: the callback queued for runOnStart calls runTask
runImmediate(l1, hc, l2) ==
  [runTask(Head(immediates), l1, hc, l2) EXCEPT !.immediates = Tail(immediates)]

\* the await of line 152 ends: the handler of an invocation on task object o
\* settles, and lines 154-201 run
runTaskResume(o, how, l1, l2) ==
  LET c == [Cur EXCEPT !.awaiting = [awaiting EXCEPT ![o] = @ - 1]]
  IN  IF how = "resolves" THEN runTaskResolved(c, o, l1, l2)
      ELSE runTaskCatch(c, o, IF how = "rejectsNull" THEN "null" ELSE "handler error", l2)

\* -------------------------------------------------- cancelTask, deleteTask
\* cancelTask that does nothing more on a task already cancelled
cancelTaskIdempotent(id, l) ==
  IF ~Has(id) THEN Refused("Task not found")
  ELSE IF heap[tasks[id]].status = "cancelled" THEN Cur
  ELSE [Cur EXCEPT
         !.heap = [heap EXCEPT ![tasks[id]].cronActive = FALSE,
                               ![tasks[id]].status = "cancelled"],
         !.stats = [stats EXCEPT !.cancelled = @ + 1],
         !.emitted = <<Event("task:cancelled", id)>>,
         !.ret = IF l = "returns" THEN Ok ELSE OuterCatch(l) ]

\* cancelTask without the cronTask.stop() of line 249
cancelTaskKeepsTrigger(id, l) ==
  IF ~Has(id) THEN Refused("Task not found")
  ELSE [Cur EXCEPT
         !.heap = [heap EXCEPT ![tasks[id]].status = "cancelled"],
         !.stats = [stats EXCEPT !.cancelled = @ + 1],
         !.emitted = <<Event("task:cancelled", id)>>,
         !.ret = IF l = "returns" THEN Ok ELSE OuterCatch(l) ]

cancelTask(id, l) ==
  IF ~Has(id) THEN Refused("Task not found")
  ELSE [Cur EXCEPT
         !.heap = [heap EXCEPT ![tasks[id]].cronActive = FALSE,
                               ![tasks[id]].status = "cancelled"],
         !.stats = [stats EXCEPT !.cancelled = @ + 1],
         !.emitted = <<Event("task:cancelled", id)>>,
         !.ret = IF l = "returns" THEN Ok ELSE OuterCatch(l) ]

\* deleteTask without the cronTask.stop() of line 290
deleteTaskKeepsTrigger(id, l) ==
  IF ~Has(id) THEN Refused("Task not found")
  ELSE [Cur EXCEPT
         !.tasks = [tasks EXCEPT ![id] = NoObj],
         !.emitted = <<Event("task:deleted", id)>>,
         !.ret = IF l = "returns" THEN Ok ELSE OuterCatch(l) ]

deleteTask(id, l) ==
  IF ~Has(id) THEN Refused("Task not found")
  ELSE [Cur EXCEPT
         !.heap = [heap EXCEPT ![tasks[id]].cronActive = FALSE],
         !.tasks = [tasks EXCEPT ![id] = NoObj],
         !.emitted = <<Event("task:deleted", id)>>,
         !.ret = IF l = "returns" THEN Ok ELSE OuterCatch(l) ]

\* ------------------------------------------------------------------ queries
\* lines 330-338: the projection of a task object
TaskView(t) ==
  [ id |-> t.id, schedule |-> t.schedule, status |-> t.status,
    lastRun |-> t.lastRun, nextRun |-> t.nextRun, options |-> t.options, stats |-> t.stats ]

getTaskInfo(id) ==
  IF ~Has(id) THEN Refused("Task not found")
  ELSE [Cur EXCEPT !.value = TaskView(heap[tasks[id]])]

\* lines 353-381: the views of the registered task objects (the array's
\* order, the Map's insertion order, is left out)
listTasks ==
  [Cur EXCEPT !.value = {TaskView(heap[tasks[id]]) : id \in {i \in TaskIds : Has(i)}}]

\* getStats reporting the registrations ever made as the task count
getStatsCountsScheduled ==
  [Cur EXCEPT !.value = [scheduled |-> stats.scheduled, running |-> stats.running,
                         completed |-> stats.completed, failed |-> stats.failed,
                         cancelled |-> stats.cancelled,
                         taskCount |-> stats.scheduled, maxTasks |-> maxTasks]]

\* lines 387-393
getStats ==
  [Cur EXCEPT !.value = [scheduled |-> stats.scheduled, running |-> stats.running,
                         completed |-> stats.completed, failed |-> stats.failed,
                         cancelled |-> stats.cancelled,
                         taskCount |-> Size, maxTasks |-> maxTasks]]

\* ------------------------------------------------------------ MemoryService
\* keys callers pass: strings, and a key that is neither string nor number
Keys == {"k1", "k2"}

BadKey == "object"

AllKeys == Keys \cup {BadKey}

\* data callers store; undefined is a value a caller can pass
Data == {"value", "undefined"}

Absent == [data |-> "none", ttl |-> FALSE]

\* lines 336-342 and the cache of line 325
MemoryInit ==
  /\ cache = [k \in AllKeys |-> Absent]
  /\ memStats = [gets |-> 0, sets |-> 0, deletes |-> 0, hits |-> 0, misses |-> 0]
  /\ calls = [retrieves |-> 0, found |-> 0, notFound |-> 0, stores |-> 0, stored |-> 0]

MemCur == [cache |-> cache, memStats |-> memStats, ret |-> Ok]

\* node-cache refusing a key by throwing
KeyRefused(key) == strictKeys /\ key = BadKey

\* lines 368-392, with the 'set' handler of lines 345-348: overLimit is
\* heapUsed > memoryLimit with a limit configured, l what a listener of the
\* service's 'set' event does
storeData(key, data, ttl, overLimit, l) ==
  IF overLimit THEN [MemCur EXCEPT !.ret = Fail("Memory limit exceeded")]
  ELSE IF KeyRefused(key) THEN [MemCur EXCEPT !.ret = Fail("EKEYTYPE")]
  ELSE [ cache |-> [cache EXCEPT ![key] = [data |-> data, ttl |-> ttl]],
         memStats |-> [memStats EXCEPT !.sets = @ + 1],
         ret |-> IF l = "returns" THEN Ok ELSE OuterCatch(l) ]

\* lines 399-425
retrieveData(key) ==
  LET g == [memStats EXCEPT !.gets = @ + 1]
  IN  IF KeyRefused(key) THEN [MemCur EXCEPT !.memStats = g, !.ret = Fail("EKEYTYPE")]
      ELSE IF cache[key] = Absent \/ cache[key].data = "undefined"
        THEN [MemCur EXCEPT !.memStats = [g EXCEPT !.misses = @ + 1],
                            !.ret = Fail("Key not found")]
      ELSE [MemCur EXCEPT !.memStats = [g EXCEPT !.hits = @ + 1]]

\* lines 432-446, with the 'del' handler of lines 350-353
deleteData(key, l) ==
  IF KeyRefused(key) THEN [MemCur EXCEPT !.ret = Fail("EKEYTYPE")]
  ELSE IF cache[key] = Absent THEN [MemCur EXCEPT !.ret = Fail("none")]
  ELSE [ cache |-> [cache EXCEPT ![key] = Absent],
         memStats |-> [memStats EXCEPT !.deletes = @ + 1],
         ret |-> IF l = "returns" THEN Ok ELSE OuterCatch(l) ]

\* lines 452-465
clearAll == [MemCur EXCEPT !.cache = [k \in AllKeys |-> Absent]]

MemApply(r) ==
  /\ cache' = r.cache
  /\ memStats' = r.memStats
  /\ UNCHANGED <<strictKeys, schedulerVars>>

Calls == calls.retrieves + calls.stores + memStats.deletes

StoreData(key, data, ttl, overLimit, l) ==
  /\ Calls < MaxCalls
  /\ MemApply(storeData(key, data, ttl, overLimit, l))
  /\ calls' = [calls EXCEPT
                !.stores = @ + 1,
                !.stored = IF storeData(key, data, ttl, overLimit, l).ret = Ok THEN @ + 1 ELSE @]

RetrieveData(key) ==
  /\ Calls < MaxCalls
  /\ MemApply(retrieveData(key))
  /\ calls' = [calls EXCEPT
                !.retrieves = @ + 1,
                !.found = IF retrieveData(key).ret = Ok THEN @ + 1 ELSE @,
                !.notFound = IF retrieveData(key).ret = Fail("Key not found") THEN @ + 1 ELSE @]

DeleteData(key, l) ==
  /\ Calls < MaxCalls
  /\ MemApply(deleteData(key, l))
  /\ UNCHANGED calls

ClearAll ==
  /\ MemApply(clearAll)
  /\ UNCHANGED calls

\* an entry stored with a ttl expires: node-cache deletes it ('del' event)
Expire(key) ==
  /\ cache[key].ttl
  /\ Calls < MaxCalls
  /\ MemApply([MemCur EXCEPT !.cache = [cache EXCEPT ![key] = Absent],
                            !.memStats = [memStats EXCEPT !.deletes = @ + 1]])
  /\ UNCHANGED calls

MemInit ==
  /\ maxTasks = DefaultMaxTasks
  /\ hasNextDate = FALSE
  /\ tasks = [id \in TaskIds |-> NoObj]
  /\ heap = <<>>
  /\ stats = [scheduled |-> 0, running |-> 0, completed |-> 0, failed |-> 0, cancelled |-> 0]
  /\ awaiting = <<>>
  /\ immediates = <<>>
  /\ clock = 0
  /\ held = NoView
  /\ strictKeys \in BOOLEAN
  /\ MemoryInit

MemNext ==
  \/ \E key \in AllKeys, data \in Data, ttl \in BOOLEAN, overLimit \in BOOLEAN,
        l \in ListenerOutcomes :
       StoreData(key, data, ttl, overLimit, l)
  \/ \E key \in AllKeys : RetrieveData(key)
  \/ \E key \in AllKeys, l \in ListenerOutcomes : DeleteData(key, l)
  \/ ClearAll
  \/ \E key \in AllKeys : Expire(key)

MemSpec == MemInit /\ [][MemNext]_vars

\* ----------------------------------------------------------------- actions
Init ==
  /\ maxTasks \in {1, DefaultMaxTasks}
  /\ hasNextDate \in BOOLEAN
  /\ tasks = [id \in TaskIds |-> NoObj]
  /\ heap = <<>>
  /\ stats = [scheduled |-> 0, running |-> 0, completed |-> 0, failed |-> 0, cancelled |-> 0]
  /\ awaiting = <<>>
  /\ immediates = <<>>
  /\ clock = 0
  /\ held = NoView
  /\ strictKeys = TRUE
  /\ MemoryInit

Live(r, o) ==
  \/ \E id \in TaskIds : r.tasks[id] = o
  \/ r.heap[o].cronActive
  \/ r.awaiting[o] > 0
  \/ held.obj = o

\* the cells in use: up to the last live one
Used(r) ==
  LET live == {o \in 1..Len(r.heap) : Live(r, o)}
  IN  IF live = {} THEN 0 ELSE CHOOSE o \in live : \A p \in live : p <= o

\* the operation's result becomes the state
Apply(r) ==
  /\ tasks' = r.tasks
  /\ heap' = [o \in 1..Used(r) |-> IF Live(r, o) THEN r.heap[o] ELSE Collected]
  /\ stats' = r.stats
  /\ awaiting' = [o \in 1..Used(r) |-> r.awaiting[o]]
  /\ immediates' = r.immediates
  /\ UNCHANGED <<maxTasks, hasNextDate, clock, held>>
  /\ UNCHANGED memVars

ScheduleTask(id, e, task, runOnStart, l) ==
  /\ scheduleTask(id, e, task, runOnStart, l).stats.scheduled <= MaxScheduled
  /\ Apply(scheduleTask(id, e, task, runOnStart, l))

\* a caller's runTask(taskId)
RunTask(id, l1, hc, l2) ==
  /\ Has(id) => Started < MaxRuns
  /\ Apply(runTask(id, l1, hc, l2))

\* lines 86-88: the trigger of task object o fires at a matching clock reading
TriggerTick(o, l1, hc, l2) ==
  /\ o \in Objs
  /\ heap[o].cronActive
  /\ Matches(heap[o].schedule, clock)
  /\ Has(heap[o].id) => Started < MaxRuns
  /\ Apply(runTask(heap[o].id, l1, hc, l2))

\* line 109: the callback queued for runOnStart runs
RunImmediate(l1, hc, l2) ==
  /\ immediates # <<>>
  /\ Has(Head(immediates)) => Started < MaxRuns
  /\ Apply(runImmediate(l1, hc, l2))

Settle(o, how, l1, l2) ==
  /\ o \in Objs
  /\ awaiting[o] > 0
  /\ Apply(runTaskResume(o, how, l1, l2))

\* a caller's cancelTask(taskId): MaxCancels calls in all, and MaxRepeats
\* more on a task whose status is 'cancelled' already
CancelTask(id, l) ==
  /\ Has(id) =>
       \/ stats.cancelled < MaxCancels
       \/ /\ heap[tasks[id]].status = "cancelled"
          /\ stats.cancelled < MaxCancels + MaxRepeats
  /\ Apply(cancelTask(id, l))

DeleteTask(id, l) == Apply(deleteTask(id, l))

GetTaskInfo(id) == Apply(getTaskInfo(id))

ListTasks == Apply(listTasks)

GetStats == Apply(getStats)

\* The inputs of the operations. An input the operation cannot read on the
\* path taken (the listener of an event never emitted, the second listener
\* when the first returned) is fixed, so that every choice is a different run.
ScheduleInputs ==
  {a \in Expressions \X TaskArgs \X BOOLEAN \X ListenerOutcomes :
     (~Validate(a[1]) \/ a[2] = "null") => (a[3] = FALSE /\ a[4] = "returns")}

RunInputs ==
  {b \in ListenerOutcomes \X HandlerCalls \X ListenerOutcomes :
     /\ b[1] # "returns" => b[2] = "awaited"
     /\ b[2] # "throws" => b[3] = "returns"}

SettleInputs ==
  {b \in Settlements \X ListenerOutcomes \X ListenerOutcomes :
     /\ b[1] # "resolves" => b[2] = "returns"
     /\ (b[1] = "rejectsNull" \/ (b[1] = "resolves" /\ b[2] # "throws")) => b[3] = "returns"}

Next ==
  \/ \E id \in TaskIds, a \in ScheduleInputs : ScheduleTask(id, a[1], a[2], a[3], a[4])
  \/ \E id \in TaskIds, b \in RunInputs : RunTask(id, b[1], b[2], b[3])
  \/ \E o \in Objs, b \in RunInputs : TriggerTick(o, b[1], b[2], b[3])
  \/ \E b \in RunInputs : RunImmediate(b[1], b[2], b[3])
  \/ \E o \in Objs, b \in SettleInputs : Settle(o, b[1], b[2], b[3])
  \/ \E id \in TaskIds, l \in ListenerOutcomes : CancelTask(id, l)
  \/ \E id \in TaskIds, l \in ListenerOutcomes : DeleteTask(id, l)
  \/ \E id \in TaskIds : GetTaskInfo(id)
  \/ ListTasks
  \/ GetStats

Spec == Init /\ [][Next]_vars

\* ------------------------------------------- the view a caller keeps
\* lines 325-340: the object getTaskInfo returns copies id, schedule, status,
\* lastRun and nextRun of the task object as they are, and holds the task
\* object's own options and stats objects (options: taskObj.options,
\* stats: taskObj.stats)
KeepView(id) ==
  /\ held = NoView
  /\ Has(id)
  /\ held' = [obj |-> tasks[id], view |-> getTaskInfo(id).value]
  /\ UNCHANGED <<maxTasks, hasNextDate, tasks, heap, stats, awaiting, immediates, clock>>
  /\ UNCHANGED memVars

\* what the kept view shows when the caller reads it: the copied fields,
\* and the options and stats objects it shares with the task object
ViewNow ==
  [held.view EXCEPT !.stats = heap[held.obj].stats, !.options = heap[held.obj].options]

\* the caller assigns to a field of the view's stats: view.stats.runs = 0,
\* view.stats.errors = 0
WriteView ==
  /\ held # NoView
  /\ heap[held.obj].stats # [runs |-> 0, errors |-> 0]
  /\ heap' = [heap EXCEPT ![held.obj].stats = [runs |-> 0, errors |-> 0]]
  /\ UNCHANGED <<maxTasks, hasNextDate, tasks, stats, awaiting, immediates, clock, held>>
  /\ UNCHANGED memVars

\* a service configured for one task, on a node-cron without nextDate
ViewInit == Init /\ maxTasks = 1 /\ hasNextDate = FALSE

\* the caller registers tasks, asks for the view of one and keeps it while
\* the tasks run, are cancelled or deleted
AfterView ==
  \/ \E id \in TaskIds, b \in RunInputs : RunTask(id, b[1], b[2], b[3])
  \/ \E o \in Objs, b \in SettleInputs : Settle(o, b[1], b[2], b[3])
  \/ \E id \in TaskIds, l \in ListenerOutcomes : CancelTask(id, l)
  \/ \E id \in TaskIds, l \in ListenerOutcomes : DeleteTask(id, l)
  \/ WriteView

ViewNext ==
  \/ held = NoView /\ \E id \in TaskIds, a \in ScheduleInputs : ScheduleTask(id, a[1], a[2], a[3], a[4])
  \/ \E id \in TaskIds : KeepView(id)
  \/ held # NoView /\ AfterView

ViewSpec == ViewInit /\ [][ViewNext]_vars

\* ------------------------------------------------- the service with a clock
\* time passes
Advance ==
  /\ clock < MaxClock
  /\ clock' = clock + 1
  /\ UNCHANGED <<maxTasks, hasNextDate, tasks, heap, stats, awaiting, immediates, held>>
  /\ UNCHANGED memVars

\* a service configured for one task
ClockInit == Init /\ maxTasks = 1

ClockNext == Next \/ Advance

ClockSpec == ClockInit /\ [][ClockNext]_vars


\* ------------------------------------------------------------- properties
\* an operation's result that leaves the service as it was and emits nothing
NoEffect(r) ==
  /\ r.tasks = tasks
  /\ r.heap = heap
  /\ r.stats = stats
  /\ r.awaiting = awaiting
  /\ r.immediates = immediates
  /\ r.emitted = <<>>

SizeOf(r) == Cardinality({id \in TaskIds : r.tasks[id] # NoObj})

\* task object o is in the registry under no id
Unregistered(o) == \A id \in TaskIds : tasks[id] # o

AllScheduleInputs == Expressions \X TaskArgs \X BOOLEAN \X ListenerOutcomes

EmitsOneOf(r, types) == \E i \in 1..Len(r.emitted) : r.emitted[i].type \in types

\* C1: scheduleTask with an id that is in the registry returns the failure
\* 'Task ID already exists', changes nothing and emits nothing, whatever its
\* other arguments; the registry holds one record per id, the record that
\* carries this id, and no record under two ids.
C1_DuplicateIdRefused ==
  /\ \A id \in TaskIds, a \in AllScheduleInputs :
       Has(id) =>
         LET r == scheduleTask(id, a[1], a[2], a[3], a[4])
         IN  r.ret = Fail("Task ID already exists") /\ NoEffect(r)
  /\ \A id \in TaskIds : Has(id) => tasks[id] \in Objs /\ heap[tasks[id]].id = id
  /\ \A i, j \in TaskIds : Has(i) /\ tasks[i] = tasks[j] => i = j

\* both ids registered, one of them cancelled since: a second scheduleTask of
\* it is refused and the cancelled record stays
C1_Witness ==
  /\ \A id \in TaskIds : Has(id)
  /\ \E id \in TaskIds :
       /\ heap[tasks[id]].status = "cancelled"
       /\ scheduleTask(id, EveryMinute, "callable", TRUE, "returns").ret.error
            = "Task ID already exists"

C4_NotFound ==
  \A id \in TaskIds :
    ~Has(id) =>
      /\ \A b \in ListenerOutcomes \X HandlerCalls \X ListenerOutcomes :
           LET r == runTask(id, b[1], b[2], b[3])
           IN  r.ret = Fail("Task not found") /\ NoEffect(r)
      /\ \A l \in ListenerOutcomes :
           /\ cancelTask(id, l).ret = Fail("Task not found")
           /\ NoEffect(cancelTask(id, l))
           /\ deleteTask(id, l).ret = Fail("Task not found")
           /\ NoEffect(deleteTask(id, l))
      /\ getTaskInfo(id).ret = Fail("Task not found")
      /\ NoEffect(getTaskInfo(id))

\* one id was registered and deleted, the other never registered, and the
\* callback of the deleted task's runOnStart is still queued
C4_Witness ==
  /\ stats.scheduled = 1
  /\ Size = 0
  /\ immediates # <<>>
  /\ runTask(Head(immediates), "returns", "awaited", "returns").ret
       = Fail("Task not found")

\* C5: when the handler of an invocation resolves, the record's status is
\* 'completed', its runs is one more, its errors is the same, the completed
\* counter is one more and the running counter is back by one.
C5_SuccessfulInvocation ==
  \A o \in Objs, b \in SettleInputs :
    (awaiting[o] > 0 /\ b[1] = "resolves") =>
      LET r == runTaskResume(o, b[1], b[2], b[3])
      IN  /\ r.heap[o].status = "completed"
          /\ r.heap[o].stats.runs = heap[o].stats.runs + 1
          /\ r.heap[o].stats.errors = heap[o].stats.errors
          /\ r.stats.completed = stats.completed + 1
          /\ r.stats.running = stats.running - 1

\* C6: when the handler of an invocation raises or rejects, with whatever
\* value, the record's status is 'failed', its errors is one more, its runs
\* is the same, the failed counter is one more, the running counter is back
\* by one, and task:failed is emitted.
C6_FailedInvocation ==
  /\ \A o \in Objs, b \in SettleInputs :
       (awaiting[o] > 0 /\ b[1] \in {"rejects", "rejectsNull"}) =>
         LET r == runTaskResume(o, b[1], b[2], b[3])
         IN  /\ r.heap[o].status = "failed"
             /\ r.heap[o].stats.errors = heap[o].stats.errors + 1
             /\ r.heap[o].stats.runs = heap[o].stats.runs
             /\ r.stats.failed = stats.failed + 1
             /\ r.stats.running = stats.running - 1
             /\ EmitsOneOf(r, {"task:failed"})
  /\ \A id \in TaskIds, hc \in {"throws", "throwsNull"}, l2 \in ListenerOutcomes :
       Has(id) =>
         LET r == runTask(id, "returns", hc, l2)
             o == tasks[id]
         IN  /\ r.heap[o].status = "failed"
             /\ r.heap[o].stats.errors = heap[o].stats.errors + 1
             /\ r.heap[o].stats.runs = heap[o].stats.runs
             /\ r.stats.failed = stats.failed + 1
             /\ r.stats.running = stats.running
             /\ EmitsOneOf(r, {"task:failed"})

\* C7, in every state: a cancelTask that returns success leaves the record
\* in the registry with its trigger stopped, and every trigger that can
\* tick is the trigger of the record registered under its id, so no tick
\* of another trigger starts a stopped record.
C7_Stopped ==
  /\ \A id \in TaskIds, l \in ListenerOutcomes :
       (Has(id) /\ cancelTask(id, l).ret = Ok) =>
         LET r == cancelTask(id, l)
         IN  /\ r.tasks[id] = tasks[id]
             /\ ~r.heap[tasks[id]].cronActive
             /\ r.heap[tasks[id]].status = "cancelled"
  /\ \A o \in Objs : heap[o].cronActive => tasks[heap[o].id] = o

\* C7, in every step: a registered record whose trigger is stopped stays
\* registered with its trigger stopped, unless the step is a deleteTask of
\* its id.
C7_StaysStopped ==
  \A id \in TaskIds :
    (Has(id) /\ ~heap[tasks[id]].cronActive) =>
      \/ /\ tasks'[id] = tasks[id]
         /\ ~heap'[tasks[id]].cronActive
      \/ \E l \in ListenerOutcomes : Apply(deleteTask(id, l))

\* C7: after cancelTask returns success no trigger tick starts the task
\* again, and the record stays in the registry, its trigger stopped, until
\* deleteTask removes it.
C7_CancelledNeverTicks == []C7_Stopped /\ [][C7_StaysStopped]_vars

\* a task was cancelled and then run by a caller's runTask to completion:
\* its record is there, its trigger is stopped
C7_Witness ==
  \E id \in TaskIds :
    /\ Has(id)
    /\ stats.cancelled = 1
    /\ ~heap[tasks[id]].cronActive
    /\ heap[tasks[id]].status = "completed"

\* C8: a deleteTask that returns success takes the record out of the
\* registry, stops its trigger and lowers the task count by one; on an id not
\* in the registry runTask, cancelTask, deleteTask and getTaskInfo answer
\* 'Task not found' while scheduleTask registers it again; no task object
\* outside the registry has an active trigger, so no tick starts it.
C8_Deleted ==
  /\ \A id \in TaskIds, l \in ListenerOutcomes :
       (Has(id) /\ deleteTask(id, l).ret = Ok) =>
         LET r == deleteTask(id, l)
         IN  /\ r.tasks[id] = NoObj
             /\ ~r.heap[tasks[id]].cronActive
             /\ SizeOf(r) = Size - 1
  /\ \A id \in TaskIds :
       ~Has(id) =>
         /\ runTask(id, "returns", "awaited", "returns").ret.error = "Task not found"
         /\ cancelTask(id, "returns").ret.error = "Task not found"
         /\ deleteTask(id, "returns").ret.error = "Task not found"
         /\ getTaskInfo(id).ret.error = "Task not found"
         /\ Size < maxTasks =>
              scheduleTask(id, EveryMinute, "callable", FALSE, "returns").ret = Ok
  /\ \A o \in Objs : Unregistered(o) => ~heap[o].cronActive

\* a task was deleted while an invocation of it was in flight: the task
\* object is out of the registry, its trigger stopped
C8_Witness ==
  \E o \in Objs :
    /\ Unregistered(o)
    /\ awaiting[o] > 0
    /\ ~heap[o].cronActive
    /\ runTask(heap[o].id, "returns", "awaited", "returns").ret.error = "Task not found"

\* C9: an invocation in flight when its task is cancelled or deleted still
\* settles: the running counter goes down by one, completed or failed goes
\* up by one, and task:completed or task:failed is emitted.
C9_InFlightSettles ==
  \A o \in Objs, b \in SettleInputs :
    (awaiting[o] > 0 /\ (Unregistered(o) \/ heap[o].status = "cancelled")) =>
      LET r == runTaskResume(o, b[1], b[2], b[3])
      IN  /\ r.stats.running = stats.running - 1
          /\ r.stats.completed + r.stats.failed = stats.completed + stats.failed + 1
          /\ EmitsOneOf(r, {"task:completed", "task:failed"})

\* what a failed invocation on task object o, with result r, may touch
FailureIsolated(r, o) ==
  /\ r.tasks = tasks
  /\ r.immediates = immediates
  /\ \A p \in Objs \ {o} : r.heap[p] = heap[p] /\ r.awaiting[p] = awaiting[p]
  /\ r.heap[o].cronActive = heap[o].cronActive
  /\ r.heap[o].schedule = heap[o].schedule
  /\ r.stats.scheduled = stats.scheduled
  /\ r.stats.completed = stats.completed
  /\ r.stats.cancelled = stats.cancelled

\* C10: an invocation whose handler raises or rejects leaves every other
\* task's record as it was and its own trigger as it was (active when it
\* was active), and of the service's counters it touches running and failed
\* only.
C10_FailureIsolated ==
  /\ \A o \in Objs, b \in SettleInputs :
       (awaiting[o] > 0 /\ b[1] \in {"rejects", "rejectsNull"}) =>
         FailureIsolated(runTaskResume(o, b[1], b[2], b[3]), o)
  /\ \A id \in TaskIds, hc \in {"throws", "throwsNull"}, l2 \in ListenerOutcomes :
       Has(id) => FailureIsolated(runTask(id, "returns", hc, l2), tasks[id])

\* a task failed twice and its trigger is still active, next to another
\* task that never ran
C10_Witness ==
  \E a, b \in TaskIds :
    /\ a # b
    /\ Has(a)
    /\ Has(b)
    /\ heap[tasks[a]].stats.errors = 2
    /\ heap[tasks[a]].cronActive
    /\ heap[tasks[b]].status = "scheduled"
    /\ heap[tasks[b]].lastRun = -1

\* the service as an operation's result leaves it
StateOf(r) == <<r.tasks, r.heap, r.stats, r.awaiting, r.immediates>>

\* C11: what a listener does while handling task:running, task:completed or
\* task:failed does not alter the invocation: the records, the counters and
\* the invocations in flight end as they do when every listener returns.
C11_ObserverIsolated ==
  /\ \A id \in TaskIds, l1, l2 \in ListenerOutcomes, hc \in HandlerCalls :
       Has(id) => StateOf(runTask(id, l1, hc, l2)) = StateOf(runTask(id, "returns", hc, "returns"))
  /\ \A o \in Objs, how \in Settlements, l1, l2 \in ListenerOutcomes :
       awaiting[o] > 0 =>
         StateOf(runTaskResume(o, how, l1, l2)) = StateOf(runTaskResume(o, how, "returns", "returns"))

\* C12: no operation raises to its caller and the promise of runTask never
\* rejects, whatever the arguments, the handler and the listeners do: every
\* call ends in a returned result (or, for a runTask whose handler has not
\* settled, a promise that will).
C12_NeverRaises ==
  /\ \A id \in TaskIds, a \in AllScheduleInputs :
       scheduleTask(id, a[1], a[2], a[3], a[4]).ret.kind # "raised"
  /\ \A id \in TaskIds, l1, l2 \in ListenerOutcomes, hc \in HandlerCalls :
       runTask(id, l1, hc, l2).ret.kind # "raised"
  /\ \A o \in Objs, how \in Settlements, l1, l2 \in ListenerOutcomes :
       awaiting[o] > 0 => runTaskResume(o, how, l1, l2).ret.kind # "raised"
  /\ \A id \in TaskIds, l \in ListenerOutcomes :
       /\ cancelTask(id, l).ret.kind # "raised"
       /\ deleteTask(id, l).ret.kind # "raised"
  /\ \A id \in TaskIds : getTaskInfo(id).ret.kind # "raised"
  /\ listTasks.ret.kind # "raised"
  /\ getStats.ret.kind # "raised"

\* C13: when scheduleTask returns success, the new record has status
\* 'scheduled' and a nextRun strictly later than the clock reading at
\* registration, and the nextRun returned is the record's.
C13_NextRunInFuture ==
  \A id \in TaskIds, a \in AllScheduleInputs :
    LET r == scheduleTask(id, a[1], a[2], a[3], a[4])
    IN  r.ret = Ok =>
          /\ r.heap[r.tasks[id]].status = "scheduled"
          /\ r.heap[r.tasks[id]].nextRun > clock
          /\ r.value = r.heap[r.tasks[id]].nextRun

\* how many of the events an operation emitted are of one of the types
CountOf(r, types) == Cardinality({i \in 1..Len(r.emitted) : r.emitted[i].type \in types})

\* C14: a successful scheduleTask emits one task:scheduled, a started
\* invocation one task:running and, when its handler settles, exactly one
\* of task:completed and task:failed, a successful cancelTask one
\* task:cancelled, a successful deleteTask one task:deleted, each carrying
\* the task id; an operation that returns a failure without starting the
\* handler emits nothing.
C14_OneNotification ==
  /\ \A id \in TaskIds, a \in AllScheduleInputs :
       LET r == scheduleTask(id, a[1], a[2], a[3], a[4])
       IN  /\ r.ret = Ok => r.emitted = <<Event("task:scheduled", id)>>
           /\ r.ret.kind = "fail" => r.emitted = <<>>
  /\ \A id \in TaskIds, l1, l2 \in ListenerOutcomes, hc \in HandlerCalls :
       LET r == runTask(id, l1, hc, l2)
       IN  IF ~Has(id) THEN r.emitted = <<>>
           ELSE /\ CountOf(r, {"task:running"}) = 1
                /\ r.emitted[1] = Event("task:running", id)
                /\ (l1 = "returns" /\ hc # "awaited")
                     => /\ CountOf(r, {"task:completed", "task:failed"}) = 1
                        /\ r.emitted[2].taskId = id
  /\ \A o \in Objs, how \in Settlements, l1, l2 \in ListenerOutcomes :
       awaiting[o] > 0 =>
         LET r == runTaskResume(o, how, l1, l2)
         IN  /\ CountOf(r, {"task:completed", "task:failed"}) = 1
             /\ \A i \in 1..Len(r.emitted) : r.emitted[i].taskId = heap[o].id
  /\ \A id \in TaskIds, l \in ListenerOutcomes :
       /\ cancelTask(id, l).ret = Ok
            => cancelTask(id, l).emitted = <<Event("task:cancelled", id)>>
       /\ cancelTask(id, l).ret.kind = "fail" => cancelTask(id, l).emitted = <<>>
       /\ deleteTask(id, l).ret = Ok
            => deleteTask(id, l).emitted = <<Event("task:deleted", id)>>
       /\ deleteTask(id, l).ret.kind = "fail" => deleteTask(id, l).emitted = <<>>

\* C15: a scheduleTask that succeeds with runOnStart true queues one run and
\* returns with the record 'scheduled' and no invocation started; the queued
\* run, when its turn comes, invokes the handler (the call is made and its
\* promise awaited); with runOnStart false nothing is queued.
C15_RunOnStart ==
  /\ \A id \in TaskIds, a \in AllScheduleInputs :
       LET r == scheduleTask(id, a[1], a[2], a[3], a[4])
       IN  r.ret = Ok =>
             /\ r.immediates = IF a[3] THEN Append(immediates, id) ELSE immediates
             /\ r.heap[r.tasks[id]].status = "scheduled"
             /\ r.stats.running = stats.running
  /\ immediates # <<>> =>
       \A l1, l2 \in ListenerOutcomes :
         LET r == runImmediate(l1, "awaited", l2)
         IN  /\ r.ret = Pending
             /\ r.stats.running = stats.running + 1
             /\ r.immediates = Tail(immediates)

\* C16: listTasks returns one view per registered task, their ids the
\* registry's keys; getStats reports that number as taskCount (a cancelled
\* task counts, a deleted one does not) and the configured ceiling as
\* maxTasks; neither query changes anything.
C16_QueriesMirrorRegistry ==
  /\ listTasks.ret = Ok
  /\ {v.id : v \in listTasks.value} = {id \in TaskIds : Has(id)}
  /\ Cardinality(listTasks.value) = Size
  /\ \A id \in TaskIds : Has(id) => getTaskInfo(id).value \in listTasks.value
  /\ getStats.value.taskCount = Size
  /\ getStats.value.maxTasks = maxTasks
  /\ NoEffect(listTasks)
  /\ NoEffect(getStats)

\* two tasks were registered; one is cancelled and still listed, the other
\* is deleted and not
C16_Witness ==
  /\ stats.scheduled = 2
  /\ getStats.value.taskCount = 1
  /\ \E v \in listTasks.value : v.status = "cancelled"

\* C17: scheduleTask returns success exactly when the id is new, the
\* registry is below maxTasks and the expression validates; a failed check
\* is reported with its own error; a successful call adds one record, its
\* trigger active, and adds 1 to the scheduled counter.
C17_ScheduleSucceedsIff ==
  \A id \in TaskIds, a \in AllScheduleInputs :
    LET r == scheduleTask(id, a[1], a[2], a[3], a[4])
    IN  /\ r.ret = Ok <=> (~Has(id) /\ Size < maxTasks /\ Validate(a[1]))
        /\ Has(id) => r.ret = Fail("Task ID already exists")
        /\ (~Has(id) /\ Size >= maxTasks) => r.ret = Fail("Maximum task limit reached")
        /\ (~Has(id) /\ Size < maxTasks /\ ~Validate(a[1]))
             => r.ret = Fail("Invalid cron schedule expression")
        /\ r.ret = Ok =>
             /\ SizeOf(r) = Size + 1
             /\ r.heap[r.tasks[id]].cronActive
             /\ r.stats.scheduled = stats.scheduled + 1

\* an operation's result that leaves task object o and the invocations
\* holding it as they were
Untouched(r, o) == r.heap[o] = heap[o] /\ r.awaiting[o] = awaiting[o]

\* C18: while an invocation on task object a is in flight, every operation
\* on another task b goes ahead without waiting for it: a run of b starts
\* (task:running) and its call stays pending only for b's own handler, a
\* settled invocation of b finishes, cancelTask, deleteTask and the queries
\* on b return, a new id is registered, and none of them touches a.
C18_TasksIndependent ==
  \A a \in Objs :
    awaiting[a] > 0 =>
      /\ \A b \in TaskIds, l1, l2 \in ListenerOutcomes, hc \in HandlerCalls :
           (Has(b) /\ tasks[b] # a) =>
             LET r == runTask(b, l1, hc, l2)
             IN  /\ r.emitted # <<>>
                 /\ Head(r.emitted) = Event("task:running", b)
                 /\ r.heap[tasks[b]].lastRun = clock
                 /\ r.ret = Pending <=> (l1 = "returns" /\ hc = "awaited")
                 /\ Untouched(r, a)
      /\ \A o \in Objs \ {a}, how \in Settlements, l1, l2 \in ListenerOutcomes :
           awaiting[o] > 0 =>
             LET r == runTaskResume(o, how, l1, l2)
             IN  /\ r.awaiting[o] = awaiting[o] - 1
                 /\ r.ret # Pending
                 /\ Untouched(r, a)
      /\ \A b \in TaskIds, l \in ListenerOutcomes :
           (Has(b) /\ tasks[b] # a) =>
             /\ ~cancelTask(b, l).heap[tasks[b]].cronActive
             /\ cancelTask(b, l).ret # Pending
             /\ Untouched(cancelTask(b, l), a)
             /\ deleteTask(b, l).tasks[b] = NoObj
             /\ deleteTask(b, l).ret # Pending
             /\ Untouched(deleteTask(b, l), a)
             /\ getTaskInfo(b).ret = Ok
      /\ \A b \in TaskIds, ro \in BOOLEAN, l \in ListenerOutcomes :
           (~Has(b) /\ Size < maxTasks) =>
             LET r == scheduleTask(b, EveryMinute, "callable", ro, l)
             IN  /\ r.tasks[b] # NoObj
                 /\ r.tasks[b] # a
                 /\ r.ret # Pending
                 /\ Untouched(r, a)
      /\ listTasks.ret = Ok
      /\ getStats.ret = Ok

\* an invocation of a task deleted since is still in flight, and the task
\* registered under its id afterwards has run and completed meanwhile
C18_Witness ==
  \E a \in Objs :
    /\ Unregistered(a)
    /\ awaiting[a] > 0
    /\ Has(heap[a].id)
    /\ heap[tasks[heap[a].id]].status = "completed"

\* C19: the memory service's gets is the number of retrieveData calls, hits
\* the number of those that returned success, misses the number that
\* returned 'Key not found', so gets = hits + misses, and sets is the number
\* of storeData calls that returned success.
C19_MemoryCounters ==
  /\ memStats.gets = calls.retrieves
  /\ memStats.hits = calls.found
  /\ memStats.misses = calls.notFound
  /\ memStats.gets = memStats.hits + memStats.misses
  /\ memStats.sets = calls.stored

RECURSIVE SumTo(_, _)
SumTo(f, n) == IF n = 0 THEN 0 ELSE f[n] + SumTo(f, n - 1)

\* invocations suspended at the await, over all task objects
InFlight == SumTo(awaiting, Len(awaiting))

\* C20: the service's running counter is the number of invocations in
\* flight: never negative, and 0 when none is.
C20_RunningIsInFlight ==
  /\ stats.running = InFlight
  /\ stats.running >= 0

\* C21: a run of a task that has an invocation in flight starts all the
\* same (from a caller, a trigger tick or the runOnStart callback: all are
\* runTask), and when one of two invocations in flight on a task object
\* finishes, the record's status becomes 'completed' or 'failed' while the
\* other is still in flight.
C21_Reentrant ==
  /\ \A id \in TaskIds :
       (Has(id) /\ awaiting[tasks[id]] > 0) =>
         LET r == runTask(id, "returns", "awaited", "returns")
         IN  /\ r.ret = Pending
             /\ r.awaiting[tasks[id]] = awaiting[tasks[id]] + 1
             /\ r.heap[tasks[id]].status = "running"
  /\ \A o \in Objs, how \in Settlements, l1, l2 \in ListenerOutcomes :
       awaiting[o] >= 2 =>
         LET r == runTaskResume(o, how, l1, l2)
         IN  /\ r.heap[o].status \in {"completed", "failed"}
             /\ r.awaiting[o] >= 1

\* two invocations of a registered task were in flight and one has
\* finished: the status is 'completed' with the other still awaited
C21_Witness ==
  \E id \in TaskIds :
    /\ Has(id)
    /\ awaiting[tasks[id]] = 1
    /\ heap[tasks[id]].status = "completed"
    /\ heap[tasks[id]].stats.runs = 1

\* C22: an invocation that finishes, by success or by failure, leaves the
\* record with a nextRun recomputed then: not earlier than the clock reading
\* at that moment.
C22_NextRunRecomputed ==
  /\ \A o \in Objs, how \in Settlements, l1, l2 \in ListenerOutcomes :
       awaiting[o] > 0 =>
         LET r == runTaskResume(o, how, l1, l2)
         IN  /\ r.heap[o].nextRun >= clock
             /\ r.heap[o].nextRun = calculateNextRun(heap[o].schedule, clock)
  /\ \A id \in TaskIds, hc \in {"throws", "throwsNull"}, l2 \in ListenerOutcomes :
       Has(id) =>
         LET r == runTask(id, "returns", hc, l2)
         IN  /\ r.heap[tasks[id]].nextRun >= clock
             /\ r.heap[tasks[id]].nextRun = calculateNextRun(heap[tasks[id]].schedule, clock)

CountedOnce(r, o) ==
  LET dRuns == r.heap[o].stats.runs - heap[o].stats.runs
      dErrors == r.heap[o].stats.errors - heap[o].stats.errors
  IN  /\ dRuns >= 0
      /\ dErrors >= 0
      /\ dRuns + dErrors = 1
      /\ r.stats.completed - stats.completed = dRuns
      /\ r.stats.failed - stats.failed = dErrors

\* C24: runs and errors of a record never decrease; an invocation that
\* finishes adds exactly 1 to exactly one of them, and the same 1 to the
\* service's completed (for runs) or failed (for errors), so that completed
\* and failed stay the sums of runs and of errors over all records.
C24_CountersConserved ==
  /\ \A o \in Objs, how \in Settlements, l1, l2 \in ListenerOutcomes :
       awaiting[o] > 0 => CountedOnce(runTaskResume(o, how, l1, l2), o)
  /\ \A id \in TaskIds, hc \in {"throws", "throwsNull"}, l2 \in ListenerOutcomes :
       Has(id) => CountedOnce(runTask(id, "returns", hc, l2), tasks[id])

\* C25, in every step with a view kept: what the view shows is what it showed
\* before (an invocation that finishes does not change it), and the record
\* is what it was unless the service changed it (the caller writing to the
\* view does not change the record).
C25_ViewStep ==
  (held # NoView /\ held' = held) =>
    /\ ViewNow' = ViewNow \/ WriteView
    /\ WriteView => TaskView(heap'[held.obj]) = TaskView(heap[held.obj])

\* C25: the view handed out by getTaskInfo is a snapshot: its status and
\* stats are those of the moment of the query and stay so, whatever the
\* service does afterwards, and writing to it leaves the record alone.
C25_ViewIsSnapshot == [][C25_ViewStep]_vars

\* a cell that holds a task object
IsRecord(h, o) == o \in 1..Len(h) /\ h[o] # Collected

\* C26, in a state: a trigger is active only for the record the registry
\* holds under its id, and the temporary trigger of calculateNextRun is
\* not active.
C26_ActiveIsRegistered ==
  /\ \A o \in Objs : heap[o].cronActive => (IsRecord(heap, o) /\ tasks[heap[o].id] = o)
  /\ ~tempTask.active
  /\ ~tempTaskLeft.active

\* C26, in a step: a record that appears has an active trigger and is in the
\* registry; a stopped trigger stays stopped; an active trigger stops only
\* in the step that cancels its task or takes its record out of the registry.
C26_TriggerStep ==
  \A o \in 1..Len(heap') :
    /\ (IsRecord(heap', o) /\ ~IsRecord(heap, o)) =>
         (heap'[o].cronActive /\ tasks'[heap'[o].id] = o)
    /\ (IsRecord(heap, o) /\ ~heap[o].cronActive) => ~heap'[o].cronActive
    /\ (IsRecord(heap, o) /\ heap[o].cronActive /\ ~heap'[o].cronActive) =>
         \/ heap'[o].status = "cancelled" /\ stats'.cancelled = stats.cancelled + 1
         \/ tasks[heap[o].id] = o /\ tasks'[heap[o].id] # o

\* C26: a trigger is active exactly for the records that are in the registry
\* and were never cancelled: none for a deleted or unregistered id, every
\* registered record has one from its registration until it is cancelled,
\* a stopped trigger never becomes active again, and the temporary triggers
\* of calculateNextRun are never active.
C26_TriggerExactlyForLive == []C26_ActiveIsRegistered /\ [][C26_TriggerStep]_vars

\* one task with its trigger active next to one that was cancelled and has
\* finished a run since, its trigger still stopped
C26_Witness ==
  \E a, b \in TaskIds :
    /\ a # b /\ Has(a) /\ Has(b)
    /\ heap[tasks[a]].cronActive
    /\ ~heap[tasks[b]].cronActive /\ heap[tasks[b]].status = "completed"
    /\ stats.cancelled = 1

\* C27: the scheduled counter is cumulative: a scheduleTask call adds 1 to
\* it when it succeeds and leaves it alone when it fails, and no invocation,
\* cancelTask or deleteTask changes it.
C27_ScheduledCumulative ==
  /\ \A id \in TaskIds, a \in AllScheduleInputs :
       LET r == scheduleTask(id, a[1], a[2], a[3], a[4])
       IN  r.stats.scheduled = stats.scheduled + (IF r.ret = Ok THEN 1 ELSE 0)
  /\ \A id \in TaskIds, l1, l2 \in ListenerOutcomes, hc \in HandlerCalls :
       runTask(id, l1, hc, l2).stats.scheduled = stats.scheduled
  /\ \A o \in Objs, how \in Settlements, l1, l2 \in ListenerOutcomes :
       awaiting[o] > 0 => runTaskResume(o, how, l1, l2).stats.scheduled = stats.scheduled
  /\ \A id \in TaskIds, l \in ListenerOutcomes :
       /\ cancelTask(id, l).stats.scheduled = stats.scheduled
       /\ deleteTask(id, l).stats.scheduled = stats.scheduled

\* C28: when the record of an id was deleted with an invocation still in
\* flight, a scheduleTask with that id, capacity and a valid expression
\* succeeds and creates a fresh record (status 'scheduled', runs 0, errors 0)
\* apart from the old one; and once the id is registered again, the old
\* invocation finishing changes the old record and the service counters
\* only, nothing of the new record.
C28_FreshRecordAfterDelete ==
  \A o \in Objs :
    (IsRecord(heap, o) /\ Unregistered(o) /\ awaiting[o] > 0) =>
      LET id == heap[o].id
      IN  /\ \A a \in AllScheduleInputs :
               (~Has(id) /\ Size < maxTasks /\ Validate(a[1]) /\ a[2] # "null") =>
                 LET r == scheduleTask(id, a[1], a[2], a[3], a[4])
                 IN  /\ r.ret = Ok
                     /\ r.tasks[id] # o
                     /\ r.heap[r.tasks[id]].status = "scheduled"
                     /\ r.heap[r.tasks[id]].stats = [runs |-> 0, errors |-> 0]
                     /\ Untouched(r, o)
          /\ \A how \in Settlements, l1, l2 \in ListenerOutcomes :
               Has(id) =>
                 LET r == runTaskResume(o, how, l1, l2)
                 IN  /\ r.tasks = tasks
                     /\ Untouched(r, tasks[id])

\* C29: runTask on a cancelled task is not rejected: the status moves to
\* 'running', the handler is invoked, and the run ends 'completed' or
\* 'failed' with the counters and nextRun updated as for any run, the
\* trigger staying stopped; an invocation in flight on a task cancelled
\* meanwhile ends 'completed' or 'failed', not 'cancelled'.
C29_CancelledStillRuns ==
  /\ \A id \in TaskIds, l1, l2 \in ListenerOutcomes, hc \in HandlerCalls :
       (Has(id) /\ heap[tasks[id]].status = "cancelled") =>
         LET o == tasks[id]
             r == runTask(id, l1, hc, l2)
         IN  /\ r.emitted # <<>> /\ Head(r.emitted) = Event("task:running", id)
             /\ ~r.heap[o].cronActive
             /\ hc = "awaited" =>
                  /\ r.heap[o].status = "running"
                  /\ r.awaiting[o] = awaiting[o] + 1
                  /\ r.stats.running = stats.running + 1
             /\ hc # "awaited" =>
                  /\ r.heap[o].status = "failed"
                  /\ r.heap[o].nextRun = calculateNextRun(heap[o].schedule, clock)
                  /\ r.stats.failed = stats.failed + 1
                  /\ r.stats.running = stats.running
  /\ \A o \in Objs, how \in Settlements, l1, l2 \in ListenerOutcomes :
       (awaiting[o] > 0 /\ heap[o].status = "cancelled") =>
         LET r == runTaskResume(o, how, l1, l2)
         IN  /\ r.heap[o].status \in {"completed", "failed"}
             /\ ~r.heap[o].cronActive

\* C30: a scheduleTask, cancelTask or deleteTask that returns success:false
\* has changed nothing, whatever its arguments and whatever the listeners
\* do: the registry, every record with its status and trigger, and the
\* service counters are as before the call.
C30_FailureChangesNothing ==
  /\ \A id \in TaskIds, a \in AllScheduleInputs :
       LET r == scheduleTask(id, a[1], a[2], a[3], a[4])
       IN  r.ret.kind = "fail" => (r.tasks = tasks /\ r.heap = heap /\ r.stats = stats)
  /\ \A id \in TaskIds, l \in ListenerOutcomes :
       /\ cancelTask(id, l).ret.kind = "fail" =>
            /\ cancelTask(id, l).tasks = tasks
            /\ cancelTask(id, l).heap = heap
            /\ cancelTask(id, l).stats = stats
       /\ deleteTask(id, l).ret.kind = "fail" =>
            /\ deleteTask(id, l).tasks = tasks
            /\ deleteTask(id, l).heap = heap
            /\ deleteTask(id, l).stats = stats

====
